---- MODULE Spec2Model ----
(***************************************************************************)
(* Model of Linac/Input_File_Parsing/LinacAccLattice.py:                   *)
(*   - LinacLatticeFactory.getLinacAccLattice, step by step (Spec);        *)
(*   - RF_Cavity / BaseRF_Gap bookkeeping and kick-slice tracking (SpecRF).*)
(*                                                                         *)
(* Lengths and positions are integers: one unit is ZeroDistance/8, so      *)
(* that positions closer than the factory's tolerance can be told apart.   *)
(* Parsed positions are even and parsed lengths are multiples of 4, hence  *)
(* every x/2.0 of the code is an exact integer division here.              *)
(* Phases are counted in quarter turns (Pi = 2 units), times in quarter    *)
(* RF periods of a cavity of frequency 1.                                  *)
(***************************************************************************)
EXTENDS Integers, Sequences, FiniteSets, TLC

\* self.zeroDistance = 0.00001 (metres), in model units
ZeroDistance == 8
Metre == 100000 * ZeroDistance
Delta == ZeroDistance - 2

\* ---------------------------------------------------------------- bounds
MaxElems == 3
MaxCavs == 2
MaxGaps == 2
MaxAdds == 3
MaxCalls == 2
MaxTime == 3
MaxSeqs == 3
MaxNames == 3

\* ------------------------------------------------- the parsed input (ltree)
SeqLength == 10 * Metre
SeqNames == <<"S1", "S2", "S3", "S4", "S5">>
CavNames == {"C1", "C2"}

Abs(x) == IF x < 0 THEN -x ELSE x

Elem(t, p, l, c) == [type |-> t, pos |-> p, length |-> l, cav |-> c]

\* what linac_parser can hand over: thick elements on the metre grid, thin
\* elements also within ZeroDistance of an edge, before 0 and beyond the end
Elements ==
    { Elem("QUAD", Metre, 2 * Metre, ""), Elem("QUAD", 5 * Metre, 2 * Metre, ""),
      Elem("QUAD", 5 * Metre, 0, "") }
    \cup { Elem("RFGAP", 5 * Metre, 0, c) : c \in CavNames }
    \cup { Elem("RFGAP", (15 * Metre) \div 2, 5 * Metre, "C1"),
           Elem("RFGAP", 9 * Metre, 4 * Metre, "C1"),
           Elem("RFGAP", Metre, 4 * Metre, "C2") }
    \cup { Elem("MARKER", p, 0, "") :
             p \in { Metre, 2 * Metre, 5 * Metre - Delta, 5 * Metre + Delta } }
    \cup { Elem("DCH", 5 * Metre, 0, ""), Elem("DCV", 12 * Metre, 0, ""),
           Elem("BEND", 5 * Metre, 2 * Metre, ""), Elem("BEND", 8 * Metre, 0, "") }

VARIABLES
    ltree,          \* self.ltree: the sequences of the structure tree
    names,          \* the argument of getLinacAccLattice
    pc,             \* where getLinacAccLattice stands
    seq_ind,        \* index (1-based) of the sequence being built
    node_ind,       \* loop index of the loop that is running
    accNodes,       \* accSeq.getNodes() of the sequence being built
    copyAccNodes,   \* the copy taken at line 260
    thinNodes,      \* parsed nodes of zero length waiting for a place
    usedThinNodes,  \* thin nodes that found a place in the running pass
    rf_cav_names,   \* auxiliary array of cavity names of this sequence
    accRF_Cavs,     \* the cavities created so far
    accSeqs,        \* finished sequences
    nDrifts,        \* number of Drift objects created (object identity)
    lattice,        \* linacAccLattice, the lattice under construction
    returned,       \* what getLinacAccLattice has returned (None until then)
    err,            \* the message given to orbitFinalize, or the exception
    warned,         \* thin nodes printed as not assigned
    rfCavities,     \* SpecRF: cavity objects
    rfGaps,         \* SpecRF: gap node objects, in lattice order
    bunch,          \* SpecRF: the sync particle of the tracked bunch
    pass,           \* SpecRF: the lattice pass that is running, and its next gap
    last,           \* SpecRF: what the last call did
    nCalls,         \* SpecRF: number of kick slices tracked so far
    refs,           \* SpecRF (history): the arrival times written so far
    quadNode,       \* SpecNode: a Quad node with its tilt and fringe-field children
    call            \* SpecNode: what the last call on the Quad did

factoryVars == <<ltree, names, pc, seq_ind, node_ind, accNodes, copyAccNodes,
                 thinNodes, usedThinNodes, rf_cav_names, accRF_Cavs, accSeqs,
                 nDrifts, lattice, returned, err, warned>>
rfVars == <<rfCavities, rfGaps, bunch, pass, last, nCalls, refs>>
nodeVars == <<quadNode, call>>
vars == <<factoryVars, rfVars, nodeVars>>

None == [none |-> TRUE]
NoErr == [kind |-> "none"]

\* ------------------------------------------------------------ list helpers
\* list.insert(index, x) with a 0-based index; an index past the end appends
Insert(s, index, x) ==
    LET i == IF index > Len(s) THEN Len(s) ELSE index
    IN SubSeq(s, 1, i) \o <<x>> \o SubSeq(s, i + 1, Len(s))

\* Sequence.addNode(node, index = -1)
addNode(s, node, index) == IF index < 0 THEN Append(s, node) ELSE Insert(s, index, node)

\* list.index(x), 0-based, by object identity; -1 stands for ValueError
IndexOf(s, id) ==
    IF \E i \in 1..Len(s) : s[i].id = id
    THEN (CHOOSE i \in 1..Len(s) : s[i].id = id /\ \A j \in 1..(i - 1) : s[j].id # id) - 1
    ELSE -1

\* list.remove(x): removes the first occurrence
Remove(s, i) == SubSeq(s, 1, i - 1) \o SubSeq(s, i + 1, Len(s))

\* --------------------------------------------------------------- RF_Cavity
\* RF_Cavity.__init__
RF_Cavity(name) ==
    [name |-> name, rfGaps |-> <<>>, frequency |-> 0, phase |-> 0, amp |-> 0,
     designPhase |-> 0, designAmp |-> 0, firstGapTime |-> 0,
     designArrivalTime |-> 0, isDesignSetUp |-> FALSE]

\* RF_Cavity.addRF_GapNode: the cavity after the call
addRF_GapNode(cav, gapId) == [cav EXCEPT !.rfGaps = Append(@, gapId)]

\* variant: every gap added to a cavity is flagged first
AsFirstRFGapAlways(cavAfter) == Len(cavAfter.rfGaps) >= 1

\* variant: the second gap added to a cavity is the one flagged first
AsSecondRFGap(cavAfter) == Len(cavAfter.rfGaps) = 2

\* RF_Cavity.addRF_GapNode: the flag given to the gap that was added
AsFirstRFGap(cavAfter) == Len(cavAfter.rfGaps) = 1

\* BaseRF_Gap.__init__, with the parameters the factory copies into the node
BaseRF_Gap(modePhase) ==
    [isFirstGap |-> FALSE, rfCavity |-> 0, modePhase |-> modePhase, E0TL |-> 1]

\* ------------------------------------------------------------------- nodes
Node(id, cls, pos, length) ==
    [id |-> id, cls |-> cls, pos |-> pos, length |-> length,
     isFirstGap |-> FALSE, rfCavity |-> 0, firstPhase |-> 0, body |-> <<>>]

\* Quad.__init__ sets 2 parts
QuadParts == 2

Drift(n, pos, length) == Node(100 + n, "Drift", pos, length)

\* degrees to quarter turns: (math.pi/180.)*firstPhase
ToRadians(deg) == deg \div 90

FirstPhaseDeg == 90

Lead(n) == n.pos - n.length \div 2
Trail(n) == n.pos + n.length \div 2

\* ------------------------------------------------ names check, lines 152-178
RECURSIVE NamesLoop(_, _, _, _)
\* the loop of lines 165-175 from the count-th name on
NamesLoop(nms, localNames, count, ind_old) ==
    IF count >= Len(nms) THEN "ok"
    ELSE LET name == nms[count + 1]
             found == { i \in 1..Len(localNames) : localNames[i] = name }
         IN IF found = {} THEN "ValueError"
            ELSE LET ind == (CHOOSE i \in found : \A j \in found : i <= j) - 1
                 IN IF ind < 0 \/ (count > 0 /\ ind # ind_old + 1)
                    THEN "names_wrong"
                    ELSE NamesLoop(nms, localNames, count + 1, ind)

seqencesLocalNames == [i \in 1..Len(ltree) |-> ltree[i].name]

\* ltree.getSeqs()[ind_start:ind_start+len(names)]
sequences ==
    LET ind_start == (CHOOSE i \in 1..Len(ltree) : ltree[i].name = names[1]) - 1
        stop == IF ind_start + Len(names) > Len(ltree) THEN Len(ltree)
                ELSE ind_start + Len(names)
    IN SubSeq(ltree, ind_start + 1, stop)

EmptyLattice == [nodes |-> <<>>, sequences |-> <<>>, rfCavities |-> <<>>]

Fatal(e) == /\ pc' = "fatal"
            /\ err' = e

Crash(e) == /\ pc' = "crash"
            /\ err' = [kind |-> e]

CheckNames ==
    /\ pc = "names"
    /\ IF Len(names) < 1
       THEN /\ Fatal([kind |-> "names_empty"])
            /\ UNCHANGED lattice
       ELSE LET r == NamesLoop(names, seqencesLocalNames, 0, -1)
            IN IF r = "ok"
               THEN /\ pc' = "classify"
                    /\ lattice' = EmptyLattice
                    /\ UNCHANGED err
               ELSE /\ IF r = "ValueError" THEN Crash(r) ELSE Fatal([kind |-> r])
                    /\ UNCHANGED lattice
    /\ UNCHANGED <<ltree, names, seq_ind, node_ind, accNodes, copyAccNodes, thinNodes,
                   usedThinNodes, rf_cav_names, accRF_Cavs, accSeqs, nDrifts,
                   returned, warned, rfVars, nodeVars>>

\* ------------------------------------------ classification, lines 195-256
seq == sequences[seq_ind]
parsedNode == seq.nodes[node_ind + 1]

Classifying == /\ pc = "classify"
               /\ node_ind < Len(seq.nodes)

\* lines 213-219
ClassifyQuad ==
    /\ Classifying
    /\ parsedNode.type = "QUAD"
    /\ accNodes' = addNode(accNodes,
                           Node(parsedNode.name, "Quad", parsedNode.pos, parsedNode.length), -1)
    /\ node_ind' = node_ind + 1
    /\ UNCHANGED <<ltree, names, pc, seq_ind, copyAccNodes, thinNodes, usedThinNodes,
                   rf_cav_names, accRF_Cavs, accSeqs, nDrifts, lattice, returned, err,
                   warned, rfVars, nodeVars>>

\* lines 236-242: the cavity made for the first gap of a name
NewCavity(rf_cav_name, firstPhase, rfFrequency) ==
    [RF_Cavity(rf_cav_name) EXCEPT !.designPhase = firstPhase, !.phase = firstPhase,
                                   !.designAmp = 1, !.frequency = rfFrequency]

\* line 243: the cavity the gap is given to
CavityOfGap(cavs, rf_cav_name) == Len(cavs)

\* lines 221-245
ClassifyRFGap ==
    /\ Classifying
    /\ parsedNode.type = "RFGAP"
    /\ LET rf_cav_name == parsedNode.cav
           isNew == \A i \in 1..Len(rf_cav_names) : rf_cav_names[i] # rf_cav_name
           firstPhase == IF isNew THEN ToRadians(FirstPhaseDeg) ELSE FirstPhaseDeg
           cavs1 == IF isNew
                    THEN Append(accRF_Cavs, NewCavity(rf_cav_name, firstPhase, seq.rfFrequency))
                    ELSE accRF_Cavs
           c == CavityOfGap(cavs1, rf_cav_name)
           cav == addRF_GapNode(cavs1[c], parsedNode.name)
           accNode == [Node(parsedNode.name, "BaseRF_Gap", parsedNode.pos,
                            parsedNode.length)
                         EXCEPT !.firstPhase = firstPhase, !.rfCavity = c,
                                !.isFirstGap = AsFirstRFGap(cav)]
       IN /\ rf_cav_names' = IF isNew THEN Append(rf_cav_names, rf_cav_name)
                              ELSE rf_cav_names
          /\ accRF_Cavs' = [cavs1 EXCEPT ![c] = cav]
          /\ accNodes' = addNode(accNodes, accNode, -1)
          /\ node_ind' = node_ind + 1
    /\ UNCHANGED <<ltree, names, pc, err, seq_ind, copyAccNodes, thinNodes, usedThinNodes,
                   accSeqs, nDrifts, lattice, returned, warned, rfVars, nodeVars>>

\* variant: only the thin types the factory knows may have length zero
StrangeUnlessKnown(node) == node.length # 0 \/ node.type \notin {"MARKER", "DCH", "DCV"}

\* line 247: node.getParam("length") != 0.
StrangeElement(node) == node.length # 0

\* lines 246-256
ClassifyOther ==
    /\ Classifying
    /\ parsedNode.type \notin {"QUAD", "RFGAP"}
    /\ IF StrangeElement(parsedNode)
       THEN /\ Fatal([kind |-> "strange", name |-> parsedNode.name,
                      type |-> parsedNode.type, length |-> parsedNode.length])
            /\ UNCHANGED <<thinNodes, node_ind>>
       ELSE /\ thinNodes' = Append(thinNodes, parsedNode)
            /\ node_ind' = node_ind + 1
            /\ UNCHANGED <<pc, err>>
    /\ UNCHANGED <<ltree, names, seq_ind, accNodes, copyAccNodes, usedThinNodes,
                   rf_cav_names, accRF_Cavs, accSeqs, nDrifts, lattice, returned,
                   warned, rfVars, nodeVars>>

\* --------------------------------------------- drift insertion, lines 257-327
ClassifyDone == /\ pc = "classify"
                /\ node_ind >= Len(seq.nodes)

NodeReport(n) == [name |-> n.id, cls |-> n.cls, length |-> n.length, pos |-> n.pos]

\* the node whose name, type, length and pos the "last node is too long" message prints
LastTooLongReported(firstNode, lastNode) == firstNode

\* lines 260-281
FirstNodeCheck ==
    /\ ClassifyDone
    /\ IF accNodes = <<>>
       THEN \* copyAccNodes[0] of an empty list
            /\ Crash("IndexError")
            /\ UNCHANGED <<accNodes, copyAccNodes, nDrifts>>
       ELSE LET firstNode == accNodes[1]
            IN /\ copyAccNodes' = accNodes
               /\ IF Abs(firstNode.length \div 2 - firstNode.pos) > ZeroDistance
                  THEN IF firstNode.length \div 2 > firstNode.pos
                       THEN /\ Fatal([kind |-> "first_too_long",
                                      node |-> NodeReport(firstNode)])
                            /\ UNCHANGED <<accNodes, nDrifts>>
                       ELSE LET length == firstNode.pos - firstNode.length \div 2
                                drift == Drift(nDrifts + 1, length \div 2, length)
                            IN /\ accNodes' = addNode(accNodes, drift, 0)
                               /\ nDrifts' = nDrifts + 1
                               /\ pc' = "last"
                               /\ UNCHANGED err
                  ELSE /\ pc' = "last"
                       /\ UNCHANGED <<accNodes, nDrifts, err>>
    /\ UNCHANGED <<ltree, names, seq_ind, node_ind, thinNodes, usedThinNodes,
                   rf_cav_names, accRF_Cavs, accSeqs, lattice, returned, warned, rfVars, nodeVars>>

\* lines 283-303
LastNodeCheck ==
    /\ pc = "last"
    /\ LET firstNode == copyAccNodes[1]
           lastNode == copyAccNodes[Len(copyAccNodes)]
       IN IF Abs(lastNode.length \div 2 + lastNode.pos - seq.length) > ZeroDistance
          THEN IF lastNode.length \div 2 + lastNode.pos > seq.length
               THEN /\ Fatal([kind |-> "last_too_long",
                              node |-> NodeReport(LastTooLongReported(firstNode, lastNode)),
                              seqName |-> seq.name, seqLength |-> seq.length])
                    /\ UNCHANGED <<accNodes, nDrifts, node_ind>>
               ELSE LET length == seq.length - (lastNode.pos + lastNode.length \div 2)
                        drift == Drift(nDrifts + 1,
                                       lastNode.pos + (lastNode.length + length) \div 2,
                                       length)
                    IN /\ accNodes' = addNode(accNodes, drift, -1)
                       /\ nDrifts' = nDrifts + 1
                       /\ pc' = "pairs"
                       /\ node_ind' = 0
                       /\ UNCHANGED err
          ELSE /\ pc' = "pairs"
               /\ node_ind' = 0
               /\ UNCHANGED <<accNodes, nDrifts, err>>
    /\ UNCHANGED <<ltree, names, seq_ind, copyAccNodes, thinNodes, usedThinNodes,
                   rf_cav_names, accRF_Cavs, accSeqs, lattice, returned, warned, rfVars, nodeVars>>

\* variant: the distance of the centre of accNode1 from the end of accNode0
DistToCentre(accNode0, accNode1) ==
    accNode1.pos - (accNode0.pos + accNode0.length \div 2)

\* line 308
Dist(accNode0, accNode1) ==
    accNode1.pos - accNode1.length \div 2 - (accNode0.pos + accNode0.length \div 2)

\* lines 305-326, one turn of the loop
PairStep ==
    /\ pc = "pairs"
    /\ node_ind < Len(copyAccNodes) - 1
    /\ LET accNode0 == copyAccNodes[node_ind + 1]
           accNode1 == copyAccNodes[node_ind + 2]
           dist == Dist(accNode0, accNode1)
       IN IF dist < 0
          THEN /\ Fatal([kind |-> "overlapping", seqName |-> seq.name,
                         node0 |-> NodeReport(accNode0), node1 |-> NodeReport(accNode1)])
               /\ UNCHANGED <<accNodes, nDrifts, node_ind>>
          ELSE /\ IF dist > ZeroDistance
                  THEN LET drift == Drift(nDrifts + 1,
                                          accNode0.pos + (accNode0.length + dist) \div 2,
                                          dist)
                           ind_of_node == IndexOf(accNodes, accNode1.id)
                       IN /\ accNodes' = addNode(accNodes, drift, ind_of_node)
                          /\ nDrifts' = nDrifts + 1
                  ELSE UNCHANGED <<accNodes, nDrifts>>
               /\ node_ind' = node_ind + 1
               /\ UNCHANGED <<pc, err>>
    /\ UNCHANGED <<ltree, names, seq_ind, copyAccNodes, thinNodes, usedThinNodes,
                   rf_cav_names, accRF_Cavs, accSeqs, lattice, returned, warned, rfVars, nodeVars>>

\* ------------------------------------- thin nodes into quads, lines 334-359
\* the node made for a thin parsed node, lines 345-352 and 373-380
ThinAccNode(node, pos) ==
    Node(node.name,
         IF node.type = "DCV" THEN "DCorrectorV"
         ELSE IF node.type = "DCH" THEN "DCorrectorH" ELSE "MarkerLinacNode",
         pos, 0)

\* line 344
InsideQuad(position, quad) ==
    \/ Abs(position - quad.pos) < ZeroDistance
    \/ (position > quad.pos - quad.length \div 2 /\ position < quad.pos + quad.length \div 2)

\* variant: the child is put after the last part of the quad
addChildNodeLastPart(quad, accNode) ==
    [quad EXCEPT !.body = Append(@, [node |-> accNode, place |-> "BODY",
                                     part_index |-> QuadParts - 1,
                                     place_in_part |-> "AFTER"])]

\* line 354: quad.addChildNode(accNode, BODY, part_index = nParts/2 - 1, AFTER)
addChildNode(quad, accNode) ==
    [quad EXCEPT !.body = Append(@, [node |-> accNode, place |-> "BODY",
                                     part_index |-> QuadParts \div 2 - 1,
                                     place_in_part |-> "AFTER"])]

\* lines 340-356 for one thin node: the nodes of the sequence afterwards
QuadsWithThin(nodes, node) ==
    [i \in 1..Len(nodes) |->
        IF nodes[i].cls = "Quad" /\ InsideQuad(node.pos, nodes[i])
        THEN addChildNode(nodes[i], ThinAccNode(node, nodes[i].pos))
        ELSE nodes[i]]

\* how many times lines 340-356 append the thin node to usedThinNodes
QuadHits(nodes, node) ==
    Cardinality({ i \in 1..Len(nodes) : nodes[i].cls = "Quad" /\ InsideQuad(node.pos, nodes[i]) })

RECURSIVE Repeat(_, _)
Repeat(x, n) == IF n <= 0 THEN <<>> ELSE <<x>> \o Repeat(x, n - 1)

PairsDone ==
    /\ pc = "pairs"
    /\ node_ind >= Len(copyAccNodes) - 1
    /\ pc' = "quads"
    /\ node_ind' = 0
    /\ usedThinNodes' = <<>>
    /\ UNCHANGED <<ltree, names, seq_ind, accNodes, copyAccNodes, thinNodes,
                   rf_cav_names, accRF_Cavs, accSeqs, nDrifts, lattice, returned, err,
                   warned, rfVars, nodeVars>>

\* lines 338-356, one thin node
ThinIntoQuads ==
    /\ pc = "quads"
    /\ node_ind < Len(thinNodes)
    /\ LET node == thinNodes[node_ind + 1]
       IN /\ accNodes' = QuadsWithThin(accNodes, node)
          /\ usedThinNodes' = usedThinNodes \o Repeat(node, QuadHits(accNodes, node))
    /\ node_ind' = node_ind + 1
    /\ UNCHANGED <<ltree, names, pc, seq_ind, copyAccNodes, thinNodes,
                   rf_cav_names, accRF_Cavs, accSeqs, nDrifts, lattice, returned, err,
                   warned, rfVars, nodeVars>>

RECURSIVE RemoveAll(_, _)
\* for node in used: thin.remove(node); ok is FALSE when a node is not there (ValueError)
RemoveAll(thin, used) ==
    IF used = <<>> THEN [ok |-> TRUE, list |-> thin]
    ELSE LET at == { i \in 1..Len(thin) : thin[i].name = Head(used).name }
         IN IF at = {} THEN [ok |-> FALSE, list |-> thin]
            ELSE RemoveAll(Remove(thin, CHOOSE i \in at : \A j \in at : i <= j), Tail(used))

\* lines 357-363
RemoveQuadThin ==
    /\ pc = "quads"
    /\ node_ind >= Len(thinNodes)
    /\ LET rest == RemoveAll(thinNodes, usedThinNodes)
       IN IF ~rest.ok
          THEN /\ Crash("ValueError")
               /\ UNCHANGED <<thinNodes, usedThinNodes, node_ind>>
          ELSE /\ thinNodes' = rest.list
               /\ usedThinNodes' = <<>>
               /\ node_ind' = 0
               /\ pc' = "drifts"
               /\ UNCHANGED err
    /\ UNCHANGED <<ltree, names, seq_ind, accNodes, copyAccNodes,
                   rf_cav_names, accRF_Cavs, accSeqs, nDrifts, lattice, returned,
                   warned, rfVars, nodeVars>>

\* ------------------------------------ __getDriftThinNode, lines 426-451
RECURSIVE SearchLoop(_, _, _, _)
\* the while loop of lines 434-441: the final ind_start (0-based)
SearchLoop(nodes, position, ind_start, ind_stop) ==
    IF ind_stop - ind_start > 1
    THEN LET ind == (ind_stop + ind_start) \div 2
             pos == nodes[ind + 1].pos - nodes[ind + 1].length \div 2
         IN IF position > pos
            THEN SearchLoop(nodes, position, ind, ind_stop)
            ELSE SearchLoop(nodes, position, ind_start, ind)
    ELSE ind_start

\* the 1-based index of the node returned, 0 for None
getDriftThinNode(position, nodes) ==
    LET ind_start == SearchLoop(nodes, position, 0, Len(nodes) - 1)
        lastNode == nodes[Len(nodes)]
    IN IF nodes[ind_start + 1].cls = "Drift" THEN ind_start + 1
       ELSE IF lastNode.cls = "Drift" /\ lastNode.pos - lastNode.length \div 2 <= position
            THEN Len(nodes)
            ELSE 0

\* ------------------------------------ thin nodes into drifts, lines 363-401
\* lines 370-399: the nodes of the sequence after the thin node is put at the drift
PlaceAtDrift(nodes, driftNode, node, n) ==
    LET position == node.pos
        pos == driftNode.pos
        L == driftNode.length
        ind_insertion == IndexOf(nodes, driftNode.id)
        accNode == ThinAccNode(node, position)
    IN IF Abs(position - (pos - L \div 2)) < ZeroDistance
       THEN addNode(nodes, accNode, ind_insertion)
       ELSE IF Abs(position - (pos + L \div 2)) < ZeroDistance
       THEN addNode(nodes, accNode, ind_insertion + 1)
       ELSE LET len0 == position - (pos - L \div 2)
                drift0 == Drift(n + 1, (pos - L \div 2) + len0 \div 2, len0)
                len1 == (pos + L \div 2) - position
                drift1 == Drift(n + 2, (pos + L \div 2) - len1 \div 2, len1)
                removed == Remove(nodes, ind_insertion + 1)
            IN addNode(addNode(addNode(removed, drift0, ind_insertion),
                               accNode, ind_insertion + 1),
                       drift1, ind_insertion + 2)

\* whether lines 389-399 run (the drift is replaced by two)
Splits(driftNode, position) ==
    /\ ~(Abs(position - (driftNode.pos - driftNode.length \div 2)) < ZeroDistance)
    /\ ~(Abs(position - (driftNode.pos + driftNode.length \div 2)) < ZeroDistance)

\* lines 364-401, one thin node
ThinIntoDrift ==
    /\ pc = "drifts"
    /\ node_ind < Len(thinNodes)
    /\ LET node == thinNodes[node_ind + 1]
           d == getDriftThinNode(node.pos, accNodes)
       IN IF d # 0
          THEN /\ usedThinNodes' = Append(usedThinNodes, node)
               /\ accNodes' = PlaceAtDrift(accNodes, accNodes[d], node, nDrifts)
               /\ nDrifts' = IF Splits(accNodes[d], node.pos) THEN nDrifts + 2 ELSE nDrifts
          ELSE UNCHANGED <<usedThinNodes, accNodes, nDrifts>>
    /\ node_ind' = node_ind + 1
    /\ UNCHANGED <<ltree, names, pc, seq_ind, copyAccNodes, thinNodes,
                   rf_cav_names, accRF_Cavs, accSeqs, lattice, returned, err,
                   warned, rfVars, nodeVars>>

\* ---------------------------------------------------- assembly, lines 402-423
\* Sequence(seq.getName()) of lines 197-199 with its nodes
Sequence(s, position, nodes) ==
    [name |-> s.name, length |-> s.length, position |-> position, nodes |-> nodes]

RECURSIVE SumLength(_)
SumLength(ss) == IF ss = <<>> THEN 0 ELSE Head(ss).length + SumLength(Tail(ss))

\* lines 402-418, and the start of the next turn of the loop of line 195
AssembleSequence ==
    /\ pc = "drifts"
    /\ node_ind >= Len(thinNodes)
    /\ LET rest == RemoveAll(thinNodes, usedThinNodes).list
           accSeq == Sequence(seq, SumLength(accSeqs), accNodes)
       IN /\ warned' = warned \o rest
          /\ lattice' = [lattice EXCEPT !.nodes = @ \o accNodes,
                                        !.sequences = Append(@, accSeq)]
          /\ accSeqs' = Append(accSeqs, accSeq)
    /\ IF seq_ind < Len(sequences)
       THEN /\ seq_ind' = seq_ind + 1
            /\ pc' = "classify"
       ELSE /\ pc' = "return"
            /\ UNCHANGED seq_ind
    /\ node_ind' = 0
    /\ accNodes' = <<>>
    /\ copyAccNodes' = <<>>
    /\ thinNodes' = <<>>
    /\ usedThinNodes' = <<>>
    /\ rf_cav_names' = <<>>
    /\ UNCHANGED <<ltree, names, accRF_Cavs, nDrifts, returned, err, rfVars, nodeVars>>

\* lines 421-423
ReturnLattice ==
    /\ pc = "return"
    /\ lattice' = [lattice EXCEPT !.rfCavities = @ \o accRF_Cavs]
    /\ returned' = lattice'
    /\ pc' = "done"
    /\ UNCHANGED <<ltree, names, seq_ind, node_ind, accNodes, copyAccNodes, thinNodes,
                   usedThinNodes, rf_cav_names, accRF_Cavs, accSeqs, nDrifts, err,
                   warned, rfVars, nodeVars>>

\* ------------------------------------------------------------ the factory
ParsedNodes(els) == [i \in 1..Len(els) |-> [name |-> i] @@ els[i]]

\* a structure tree of one or two sequences holding the parsed nodes nds
Tree(nds, cut) ==
    LET s(i, ns) == [name |-> SeqNames[i], length |-> SeqLength, rfFrequency |-> 1,
                     nodes |-> ns]
    IN IF cut >= Len(nds) THEN <<s(1, nds)>>
       ELSE <<s(1, SubSeq(nds, 1, cut)), s(2, SubSeq(nds, cut + 1, Len(nds)))>>

\* ------------------------------------------------------ Quad and children
\* FringeField.__init__: no function unless given, usage True
FringeField(trackFunction) == [trackFunc |-> trackFunction, usage |-> TRUE]

\* Quad.__init__ on top of LinacMagnetNode.__init__ and LinacNode.__init__:
\* two TiltElement children of angle 0, two FringeField children that get
\* the functions fringeIN and fringeOUT of the Quad, 2 parts
Quad ==
    [nParts |-> QuadParts, length |-> 0, parts |-> <<>>,
     tiltNodeIN |-> 0, tiltNodeOUT |-> 0,
     fringeFieldIN |-> [FringeField("None") EXCEPT !.trackFunc = "fringeIN"],
     fringeFieldOUT |-> [FringeField("None") EXCEPT !.trackFunc = "fringeOUT"]]

NodeIdle ==
    /\ quadNode = Quad
    /\ call = [op |-> "Quad"]

RFIdle ==
    /\ rfCavities = <<>>
    /\ rfGaps = <<>>
    /\ bunch = [time |-> 0, eKin |-> 0]
    /\ pass = [mode |-> "build", next |-> 0]
    /\ last = None
    /\ nCalls = 0
    /\ refs = {}

\* a structure tree of Len(els) sequences of one element each
NameTree(els) ==
    [i \in 1..Len(els) |->
        [name |-> SeqNames[i], length |-> SeqLength, rfFrequency |-> 1,
         nodes |-> <<ParsedNodes(els)[i]>>]]

\* the names a caller may ask for: those of the tree, and others
NameChoices == { SeqNames[i] : i \in 1..(MaxSeqs + 1) }

\* any elements in one or two sequences, all sequences asked for
InputTree ==
    /\ \E n \in 0..MaxElems : \E els \in [1..n -> Elements] :
          \E cut \in (1..n) \cup {MaxElems} :
             ltree = Tree(ParsedNodes(els), cut)
    /\ names = [i \in 1..Len(ltree) |-> ltree[i].name]

\* up to MaxSeqs sequences of one non-thin element, any list of names
InputNames ==
    /\ \E k \in 1..MaxSeqs :
          \E els \in [1..k -> { Elem("QUAD", Metre, 2 * Metre, ""),
                                 Elem("RFGAP", 5 * Metre, 0, "C1") }] :
             ltree = NameTree(els)
    /\ \E m \in 0..MaxNames : \E nms \in [1..m -> NameChoices] : names = nms

Init ==
    /\ (InputTree \/ InputNames)
    /\ pc = "names"
    /\ seq_ind = 1
    /\ node_ind = 0
    /\ accNodes = <<>>
    /\ copyAccNodes = <<>>
    /\ thinNodes = <<>>
    /\ usedThinNodes = <<>>
    /\ rf_cav_names = <<>>
    /\ accRF_Cavs = <<>>
    /\ accSeqs = <<>>
    /\ nDrifts = 0
    /\ lattice = None
    /\ returned = None
    /\ err = NoErr
    /\ warned = <<>>
    /\ RFIdle
    /\ NodeIdle

Next ==
    \/ CheckNames
    \/ ClassifyQuad
    \/ ClassifyRFGap
    \/ ClassifyOther
    \/ FirstNodeCheck
    \/ LastNodeCheck
    \/ PairStep
    \/ PairsDone
    \/ ThinIntoQuads
    \/ RemoveQuadThin
    \/ ThinIntoDrift
    \/ AssembleSequence
    \/ ReturnLattice

Spec == Init /\ [][Next]_vars

\* ===================================================================== claims
Within(a, b) == Abs(a - b) <= ZeroDistance

Tiles(s) ==
    /\ s.nodes # <<>>
    /\ Within(Lead(s.nodes[1]), 0)
    /\ Within(Trail(s.nodes[Len(s.nodes)]), s.length)
    /\ \A i \in 1..(Len(s.nodes) - 1) : Within(Trail(s.nodes[i]), Lead(s.nodes[i + 1]))

Returned == pc = "done"

\* C1: in every lattice that getLinacAccLattice returns, the nodes of every
\* sequence tile [0, length]: the first leading edge is 0, the last trailing
\* edge is the sequence length, and each trailing edge meets the next leading
\* edge, all within zeroDistance.
C1_Tiling ==
    Returned => \A i \in 1..Len(returned.sequences) : Tiles(returned.sequences[i])

\* ----------------------------------------------------------------------- C1
\* a returned sequence that received thin nodes at a drift
C1_Case ==
    /\ Returned
    /\ \E i \in 1..Len(returned.sequences) :
          \E j \in 1..Len(returned.sequences[i].nodes) :
             returned.sequences[i].nodes[j].cls = "MarkerLinacNode"

\* ----------------------------------------------------------------------- C2
ScenarioC2 ==
    ltree = Tree(ParsedNodes(<<Elem("QUAD", Metre, 2 * Metre, ""),
                               Elem("RFGAP", 5 * Metre, 0, "C1"),
                               Elem("MARKER", Metre, 0, "")>>), MaxElems)

Classes(nodes) == [i \in 1..Len(nodes) |-> nodes[i].cls]
Spans(nodes) == [i \in 1..Len(nodes) |-> <<Lead(nodes[i]), Trail(nodes[i])>>]

\* the third parsed node is a BODY child at the middle of the quad and no node of its own
MarkerNested(nodes, q) ==
    /\ nodes[q].cls = "Quad"
    /\ Len(nodes[q].body) = 1
    /\ nodes[q].body[1].node.id = 3
    /\ nodes[q].body[1].node.cls = "MarkerLinacNode"
    /\ nodes[q].body[1].node.pos = nodes[q].pos
    /\ nodes[q].body[1].place = "BODY"
    /\ nodes[q].body[1].place_in_part = "AFTER"
    /\ nodes[q].body[1].part_index = 0
    /\ \A i \in 1..Len(nodes) : nodes[i].id # 3

\* exactly one cavity, "C1", with exactly one gap (at node g), flagged first
OneCavityC1(lat, g) ==
    /\ Len(lat.rfCavities) = 1
    /\ lat.rfCavities[1].name = "C1"
    /\ lat.rfCavities[1].rfGaps = <<lat.nodes[g].id>>
    /\ lat.nodes[g].cls = "BaseRF_Gap"
    /\ lat.nodes[g].isFirstGap
    /\ lat.nodes[g].rfCavity = 1

\* C2 as stated: the scenario yields Drift, Quad (Marker nested), Drift,
\* RFGap, Drift and one cavity "C1" with one gap flagged first.
C2_AsStated ==
    (ScenarioC2 /\ Returned) =>
        /\ Classes(returned.nodes) = <<"Drift", "Quad", "Drift", "BaseRF_Gap", "Drift">>
        /\ MarkerNested(returned.nodes, 2)
        /\ OneCavityC1(returned, 4)

\* C2 amended: the Quad spans [0, 2.0], so no Drift precedes it; the scenario
\* yields Quad (Marker nested as BODY child after part 0, not a node of its
\* own), Drift [2.0, 5.0], RFGap at 5.0, Drift [5.0, 10.0], and one cavity
\* "C1" with one gap flagged first.
C2_Scenario ==
    (ScenarioC2 /\ Returned) =>
        /\ Classes(returned.nodes) = <<"Quad", "Drift", "BaseRF_Gap", "Drift">>
        /\ Spans(returned.nodes) = << <<0, 2 * Metre>>, <<2 * Metre, 5 * Metre>>,
                                      <<5 * Metre, 5 * Metre>>, <<5 * Metre, 10 * Metre>> >>
        /\ returned.sequences[1].nodes = returned.nodes
        /\ MarkerNested(returned.nodes, 1)
        /\ OneCavityC1(returned, 3)
        /\ warned = <<>>

C2_Witness == ScenarioC2 /\ Returned

\* ----------------------------------------------------------------------- C3
IsThick(e) == e.type \in {"QUAD", "RFGAP"}
Thick(s) == SelectSeq(s.nodes, IsThick)

\* the adjacent non-thin elements i, i+1 of sequence s overlap
Overlap(s, i) ==
    LET a == Thick(s)[i]
        b == Thick(s)[i + 1]
    IN a.pos + a.length \div 2 > b.pos - b.length \div 2
HasOverlap(s) == \E i \in 1..(Len(Thick(s)) - 1) : Overlap(s, i)
Requested == IF lattice = None THEN <<>> ELSE sequences
AnyOverlap == \E k \in 1..Len(Requested) : HasOverlap(Requested[k])

ParsedReport(e) ==
    [name |-> e.name, cls |-> IF e.type = "QUAD" THEN "Quad" ELSE "BaseRF_Gap",
     length |-> e.length, pos |-> e.pos]

HasStrange(s) == \E i \in 1..Len(s.nodes) : ~IsThick(s.nodes[i]) /\ s.nodes[i].length # 0
FirstTooLong(s) == Thick(s)[1].length \div 2 - Thick(s)[1].pos > ZeroDistance
LastTooLong(s) ==
    LET n == Thick(s)[Len(Thick(s))] IN n.length \div 2 + n.pos - s.length > ZeroDistance

Terminal == pc \in {"done", "fatal", "crash"}

C4_TooLong ==
    /\ (pc = "fatal" /\ err.kind = "first_too_long") =>
          /\ FirstTooLong(seq)
          /\ err.node = NodeReport(accNodes[1])
    /\ (pc = "fatal" /\ err.kind = "last_too_long") =>
          /\ LastTooLong(seq)
          /\ err.node = NodeReport(accNodes[Len(accNodes)])
    /\ (pc \in {"last", "pairs"}) =>
          /\ ~FirstTooLong(seq)
          /\ LET n == copyAccNodes[1]
             IN IF n.pos - n.length \div 2 > ZeroDistance
                THEN /\ accNodes[1].cls = "Drift"
                     /\ accNodes[1].length = n.pos - n.length \div 2
                     /\ Lead(accNodes[1]) = 0
                ELSE accNodes[1] = n
    /\ (pc = "pairs" /\ node_ind = 0) =>
          /\ ~LastTooLong(seq)
          /\ LET n == copyAccNodes[Len(copyAccNodes)]
             IN IF seq.length - (n.pos + n.length \div 2) > ZeroDistance
                THEN /\ accNodes[Len(accNodes)].cls = "Drift"
                     /\ accNodes[Len(accNodes)].length = seq.length - (n.pos + n.length \div 2)
                     /\ Trail(accNodes[Len(accNodes)]) = seq.length
                ELSE accNodes[Len(accNodes)] = n

\* ----------------------------------------------------------------------- C5
RECURSIVE Flatten(_)
Flatten(ss) == IF ss = <<>> THEN <<>> ELSE Head(ss).nodes \o Flatten(Tail(ss))

\* the parsed node a lattice node was made from
ParsedOf(id) == LET all == Flatten(ltree) IN all[CHOOSE i \in 1..Len(all) : all[i].name = id]

InList(x, s) == \E i \in 1..Len(s) : s[i] = x

\* C5: in the returned lattice every RF gap belongs to, and refers to, the
\* cavity named by its own parent-cavity name, whatever the order of the
\* gaps; the first gap met for a name is flagged first, every later gap of
\* that name is in the same cavity and not flagged first.
C5_Grouping ==
    Returned =>
        \A i \in 1..Len(returned.nodes) :
           LET n == returned.nodes[i]
           IN n.cls = "BaseRF_Gap" =>
                /\ n.rfCavity \in 1..Len(returned.rfCavities)
                /\ returned.rfCavities[n.rfCavity].name = ParsedOf(n.id).cav
                /\ InList(n.id, returned.rfCavities[n.rfCavity].rfGaps)
                /\ \A j \in 1..(i - 1) :
                      LET m == returned.nodes[j]
                      IN (m.cls = "BaseRF_Gap" /\ ParsedOf(m.id).cav = ParsedOf(n.id).cav)
                            => (m.rfCavity = n.rfCavity /\ ~n.isFirstGap)
                /\ (\A j \in 1..(i - 1) :
                      LET m == returned.nodes[j]
                      IN ~(m.cls = "BaseRF_Gap" /\ ParsedOf(m.id).cav = ParsedOf(n.id).cav))
                      => n.isFirstGap

\* =========================================================================
\* RF cavities and RF gaps: RF_Cavity, BaseRF_Gap.track, .trackDesignBunch
\* =========================================================================
\* math.pi in quarter turns
Pi == 2
TwoPi == 2 * Pi
\* time is counted in quarter periods of a cavity of frequency 1
TicksPerPeriod == 2 * Pi

\* math.fmod: the result has the sign of x
Fmod(x, m) == IF x >= 0 THEN x % m ELSE -((-x) % m)

\* math.cos of a phase in quarter turns
Cos(phase) ==
    LET r == Abs(phase) % TwoPi
    IN IF r = 0 THEN 1 ELSE IF r = Pi THEN -1 ELSE 0

\* frequency*(arrival_time - ref_time)*2.0*math.pi + rfPhase, modulo 2 pi
GapPhase(frequency, arrival_time, ref_time, rfPhase) ==
    Fmod((frequency * (arrival_time - ref_time) * TwoPi) \div TicksPerPeriod + rfPhase, TwoPi)

\* RF_Cavity.setDesignSetUp
setDesignSetUp(cav, designOnOf) == [cav EXCEPT !.isDesignSetUp = designOnOf]

\* what the first gap does to its cavity in trackDesignBunch, lines 1076-1077
DesignFirstGap(cav, arrival_time) == [cav EXCEPT !.designArrivalTime = arrival_time]

\* BaseRF_Gap.trackDesignBunch for the kick slice (index 1), lines 1069-1088
trackDesignBunch(g, cavs, bun) ==
    LET gap == rfGaps[g]
    IN IF gap.rfCavity = 0
       THEN \* None.getFrequency()
            [outcome |-> "AttributeError", cavs |-> cavs, bunch |-> bun, phase |-> 0,
             wrote |-> {}]
       ELSE LET rfCavity == cavs[gap.rfCavity]
                modePhase == gap.modePhase * Pi
                arrival_time == bun.time
                frequency == rfCavity.frequency
                rfPhase == rfCavity.designPhase + modePhase
                phase == IF gap.isFirstGap THEN rfPhase
                         ELSE GapPhase(frequency, arrival_time,
                                       rfCavity.designArrivalTime, rfPhase)
            IN [outcome |-> "ok",
                cavs |-> IF gap.isFirstGap
                         THEN [cavs EXCEPT ![gap.rfCavity] = DesignFirstGap(@, arrival_time)]
                         ELSE cavs,
                bunch |-> [bun EXCEPT !.eKin = @ + gap.E0TL * Cos(phase)],
                phase |-> phase,
                wrote |-> IF gap.isFirstGap THEN {<<gap.rfCavity, "designArrivalTime">>}
                          ELSE {}]

\* BaseRF_Gap.track for the kick slice (index 1), lines 1032-1053:
\* line 1035 calls rfCavity.frequency(), which RF_Cavity does not have
track(g, cavs, bun) ==
    [outcome |-> "AttributeError", cavs |-> cavs, bunch |-> bun, phase |-> 0, wrote |-> {}]

Kick(mode, g, cavs, bun) ==
    IF mode = "design" THEN trackDesignBunch(g, cavs, bun) ELSE track(g, cavs, bun)

TotalAdds == LET n[i \in 0..Len(rfCavities)] ==
                     IF i = 0 THEN 0 ELSE n[i - 1] + Len(rfCavities[i].rfGaps)
             IN n[Len(rfCavities)]

FactoryIdle ==
    /\ ltree = <<>>
    /\ names = <<>>
    /\ pc = "idle"
    /\ seq_ind = 0
    /\ node_ind = 0
    /\ accNodes = <<>>
    /\ copyAccNodes = <<>>
    /\ thinNodes = <<>>
    /\ usedThinNodes = <<>>
    /\ rf_cav_names = <<>>
    /\ accRF_Cavs = <<>>
    /\ accSeqs = <<>>
    /\ nDrifts = 0
    /\ lattice = None
    /\ returned = None
    /\ err = NoErr
    /\ warned = <<>>

InitRF == FactoryIdle /\ RFIdle /\ NodeIdle

\* accRF_Cav = RF_Cavity(rf_cav_name) and its set-up, lines 236-242
NewRF_Cavity ==
    /\ pass.mode = "build"
    /\ Len(rfCavities) < MaxCavs
    /\ \E firstPhase \in {0, 1} :
          rfCavities' = Append(rfCavities,
                               NewCavity(IF rfCavities = <<>> THEN "C1" ELSE "C2",
                                         firstPhase, 1))
    /\ UNCHANGED <<factoryVars, nodeVars, rfGaps, bunch, pass, last, nCalls, refs>>

\* accNode = BaseRF_Gap(name), lines 222-231
NewRF_Gap ==
    /\ pass.mode = "build"
    /\ Len(rfGaps) < MaxGaps
    /\ \E modePhase \in {0, 1} : rfGaps' = Append(rfGaps, BaseRF_Gap(modePhase))
    /\ UNCHANGED <<factoryVars, nodeVars, rfCavities, bunch, pass, last, nCalls, refs>>

\* cav.addRF_GapNode(gap), lines 1260-1267
AddRF_GapNode ==
    /\ pass.mode = "build"
    /\ TotalAdds < MaxAdds
    /\ \E c \in 1..Len(rfCavities) : \E g \in 1..Len(rfGaps) :
          LET cav == addRF_GapNode(rfCavities[c], g)
          IN /\ rfCavities' = [rfCavities EXCEPT ![c] = cav]
             /\ rfGaps' = [rfGaps EXCEPT ![g].rfCavity = c,
                                         ![g].isFirstGap = AsFirstRFGap(cav)]
             /\ last' = [op |-> "addRF_GapNode", cav |-> c, gap |-> g]
    /\ UNCHANGED <<factoryVars, nodeVars, bunch, pass, nCalls, refs>>

\* LinacAccLattice.initialize(): the lattice is built, tracking may begin
Initialize ==
    /\ pass.mode = "build"
    /\ rfGaps # <<>>
    /\ pass' = [mode |-> "idle", next |-> 0]
    /\ last' = [op |-> "initialize"]
    /\ UNCHANGED <<factoryVars, nodeVars, rfCavities, rfGaps, bunch, nCalls, refs>>

\* cav.setDesignSetUp(True / False), lines 1196-1198
SetDesignSetUp ==
    /\ pass.mode = "idle"
    /\ \E c \in 1..Len(rfCavities) : \E b \in BOOLEAN :
          /\ rfCavities[c].isDesignSetUp # b
          /\ rfCavities' = [rfCavities EXCEPT ![c] = setDesignSetUp(@, b)]
    /\ UNCHANGED <<factoryVars, nodeVars, rfGaps, bunch, pass, last, nCalls, refs>>

\* the state after the kick slice of gap g was tracked at time t
Tracked(mode, g, t, inPass) ==
    LET r == Kick(mode, g, rfCavities, [bunch EXCEPT !.time = t])
    IN /\ rfCavities' = r.cavs
       /\ bunch' = r.bunch
       /\ nCalls' = nCalls + 1
       /\ refs' = refs \cup r.wrote
       /\ last' = [op |-> mode, gap |-> g, time |-> t, outcome |-> r.outcome,
                   phase |-> r.phase, wrote |-> r.wrote, inPass |-> inPass,
                   first |-> rfGaps[g].isFirstGap, cav |-> rfGaps[g].rfCavity]
       /\ pass' = IF ~inPass \/ r.outcome # "ok" \/ g >= Len(rfGaps)
                  THEN [mode |-> "idle", next |-> 0]
                  ELSE [pass EXCEPT !.next = g + 1]

\* LinacAccLattice.trackDesignBunch / trackBunch up to the first node, lines 50-84
StartPass ==
    /\ pass.mode = "idle"
    /\ rfGaps # <<>>
    /\ nCalls + Len(rfGaps) <= MaxCalls
    /\ \E mode \in {"design", "track"} : pass' = [mode |-> mode, next |-> 1]
    /\ bunch' = [bunch EXCEPT !.time = 0]
    /\ last' = [op |-> "start"]
    /\ UNCHANGED <<factoryVars, nodeVars, rfCavities, rfGaps, nCalls, refs>>

\* the pass reaches the kick slice of its next gap, the bunch having drifted
PassStep ==
    /\ pass.mode \in {"design", "track"}
    /\ \E t \in bunch.time..MaxTime : Tracked(pass.mode, pass.next, t, TRUE)
    /\ UNCHANGED <<factoryVars, nodeVars, rfGaps>>

\* gap.trackDesignBunch(paramsDict) or gap.track(paramsDict) called on one node
NodeCall ==
    /\ pass.mode = "idle"
    /\ nCalls < MaxCalls
    /\ \E mode \in {"design", "track"} : \E g \in 1..Len(rfGaps) : \E t \in 0..MaxTime :
          Tracked(mode, g, t, FALSE)
    /\ UNCHANGED <<factoryVars, nodeVars, rfGaps>>

NextRF ==
    \/ NewRF_Cavity
    \/ NewRF_Gap
    \/ AddRF_GapNode
    \/ Initialize
    \/ SetDesignSetUp
    \/ StartPass
    \/ PassStep
    \/ NodeCall

SpecRF == InitRF /\ [][NextRF]_vars

\* ----------------------------------------------------------- C6 .. C10
\* this step tracked the kick slice of a gap that has a cavity
KickStep(mode) ==
    /\ nCalls' = nCalls + 1
    /\ last'.op = mode
    /\ last'.cav # 0

\* rfCavity.getPhase() + modePhase, resp. rfCavity.getDesignPhase() + modePhase
RfPhase(g, cav) == cav.phase + rfGaps[g].modePhase * Pi
RfDesignPhase(g, cav) == cav.designPhase + rfGaps[g].modePhase * Pi

\* C6: a design pass through the kick slice of the first gap of a cavity
\* stores the sync-particle time at that gap as the design arrival time and
\* leaves the cavity design-referenced (isDesignSetUp true).
C6_DesignReference ==
    [][(KickStep("design") /\ last'.first) =>
          /\ last'.outcome = "ok"
          /\ rfCavities'[last'.cav].designArrivalTime = last'.time
          /\ rfCavities'[last'.cav].isDesignSetUp]_vars

\* C7: operational tracking of the kick slice of a first gap completes,
\* stores the sync-particle time as firstGapTime, and uses the phase
\* (frequency*(t - designArrivalTime)*2pi + reference) mod 2pi when the
\* cavity is design-referenced, the reference phase otherwise.
C7_FirstGapTrack ==
    [][(KickStep("track") /\ last'.first) =>
          LET cav == rfCavities'[last'.cav]
          IN /\ last'.outcome = "ok"
             /\ cav.firstGapTime = last'.time
             /\ last'.phase = IF cav.isDesignSetUp
                              THEN GapPhase(cav.frequency, last'.time, cav.designArrivalTime,
                                            RfPhase(last'.gap, cav))
                              ELSE RfPhase(last'.gap, cav)]_vars

\* how often gap g is in the gap list of some cavity
Occurrences(g) ==
    LET n[i \in 0..Len(rfCavities)] ==
            IF i = 0 THEN 0
            ELSE n[i - 1] + Cardinality({ k \in 1..Len(rfCavities[i].rfGaps) :
                                            rfCavities[i].rfGaps[k] = g })
    IN n[Len(rfCavities)]

AddedOnce == \A g \in 1..Len(rfGaps) : Occurrences(g) <= 1

\* C8: for a gap that is not first (every gap node added once), operational tracking uses the phase
\* (frequency*(t_i - firstGapTime)*2pi + reference) mod 2pi, design tracking
\* the same with the design arrival time and the design phase.
C8_OtherGapPhase ==
    [][(AddedOnce /\ nCalls' = nCalls + 1 /\ last'.cav # 0 /\ ~last'.first) =>
          LET cav == rfCavities'[last'.cav]
          IN /\ last'.outcome = "ok"
             /\ last'.phase = IF last'.op = "track"
                              THEN GapPhase(cav.frequency, last'.time, cav.firstGapTime,
                                            RfPhase(last'.gap, cav))
                              ELSE GapPhase(cav.frequency, last'.time, cav.designArrivalTime,
                                            RfDesignPhase(last'.gap, cav))]_vars

\* the arrival time a mode refers to
RefOf(mode) == IF mode = "design" THEN "designArrivalTime" ELSE "firstGapTime"

\* C9: tracking the kick slice of a gap that is not first (every gap node
\* added once), in a mode in which
\* the arrival time of its cavity was never written, signals an error and
\* computes no phase.
C9_OrderError ==
    [][(AddedOnce /\ nCalls' = nCalls + 1 /\ last'.cav # 0 /\ ~last'.first
          /\ <<last'.cav, RefOf(last'.op)>> \notin refs)
         => last'.outcome # "ok"]_vars

\* in a cavity with gaps, the gap at index 0 is flagged first, no other gap is
FirstFlags ==
    \A c \in 1..Len(rfCavities) :
       LET gs == rfCavities[c].rfGaps
       IN \A k \in 1..Len(gs) : rfGaps[gs[k]].isFirstGap <=> (k = 1)

\* a step that changes an arrival time of a cavity is the kick slice of a gap
\* of that cavity that is flagged first
WritesByFirst ==
    \A c \in 1..Len(rfCavities) :
       (\/ rfCavities'[c].designArrivalTime # rfCavities[c].designArrivalTime
        \/ rfCavities'[c].firstGapTime # rfCavities[c].firstGapTime)
          => (nCalls' = nCalls + 1 /\ last'.cav = c /\ last'.first
                /\ rfGaps[last'.gap].isFirstGap)

\* C10 as stated: after any calls of addRF_GapNode exactly the gap at index 0
\* of a cavity with gaps is flagged first.
C10_AsStated == FirstFlags

\* C10 amended: after calls of addRF_GapNode that add every gap node at most
\* once, exactly the gap at index 0 of a cavity with gaps is flagged first;
\* and in any tracking only a gap flagged first writes the arrival times
\* (designArrivalTime, firstGapTime) of its cavity.
C10_FirstGap == [](AddedOnce => FirstFlags) /\ [][WritesByFirst]_vars

C10_Witness ==
    /\ AddedOnce
    /\ \E c \in 1..Len(rfCavities) : Len(rfCavities[c].rfGaps) = 2
    /\ nCalls = 2
    /\ last.op = "design"
    /\ last.outcome = "ok"
    /\ ~last.first
    /\ <<last.cav, "designArrivalTime">> \in refs

\* =========================================================================
\* Quad nodes: Quad.initialize, LinacNode.setTiltAngle, FringeField.track
\* =========================================================================
\* Lengths of the quad are multiples of LenUnit, so that every division of
\* Quad.initialize is exact for the part counts 1..MaxParts.
LenUnit == 120
MaxParts == 6
QuadLengths == {0, LenUnit, 2 * LenUnit}
Angles == {-1, 0, 1}
Sides == {"IN", "OUT"}
TrackFunctions == {"None", "fringeIN", "fringeOUT", "user"}

\* line 828: the part counts Quad.initialize refuses
RefusedParts(nParts) == nParts < 2 /\ nParts % 2 # 0

\* lines 839-840
lengthIN(length, nParts) == (length \div (nParts - 1)) \div 2
lengthOUT(length, nParts) == (length \div (nParts - 1)) \div 2

\* variant: an interior part as long as an edge part
lengthStepEdge(length, nParts) == lengthIN(length, nParts)

\* line 841
lengthStep(length, nParts) == lengthIN(length, nParts) + lengthOUT(length, nParts)

\* Quad.initialize, lines 822-845: the outcome and the quad afterwards
initialize(q) ==
    IF RefusedParts(q.nParts)
    THEN [outcome |-> "fatal", quad |-> q]
    ELSE [outcome |-> "ok",
          quad |-> [q EXCEPT !.parts =
                      [i \in 1..q.nParts |->
                          IF i = 1 THEN lengthIN(q.length, q.nParts)
                          ELSE IF i = q.nParts THEN lengthOUT(q.length, q.nParts)
                          ELSE lengthStep(q.length, q.nParts)]]]

\* LinacNode.setTiltAngle, lines 542-548: line 546 reads self.__params, which
\* inside LinacNode is the attribute _LinacNode__params; no such attribute is
\* ever set, so the call raises before it reaches the tilt children
setTiltAngle(q, angle) == [outcome |-> "AttributeError", quad |-> q]

\* LinacNode.getTiltAngle
getTiltAngle(q) == q.tiltNodeIN

\* fringeIN / fringeOUT of Quad.__init__ (lines 774-777, 794-797) act unless
\* the usage flag of the child is off; a function of the caller always acts
FunctionActs(ff) == IF ff.trackFunc = "user" THEN TRUE ELSE ff.usage

\* FringeField.track, lines 1140-1146: whether the function is called and
\* whether it changes the bunch
FringeTrack(ff) ==
    IF ff.trackFunc # "None"
    THEN [invoked |-> TRUE, acted |-> FunctionActs(ff)]
    ELSE [invoked |-> FALSE, acted |-> FALSE]

Child(q, side) == IF side = "IN" THEN q.fringeFieldIN ELSE q.fringeFieldOUT

\* FringeField.setUsage through setUsageFringeFieldIN / OUT
setUsage(q, side, usage) ==
    IF side = "IN" THEN [q EXCEPT !.fringeFieldIN.usage = usage]
    ELSE [q EXCEPT !.fringeFieldOUT.usage = usage]

\* FringeField.setFringeFieldFunction through setFringeFieldFunctionIN / OUT
setFringeFieldFunction(q, side, f) ==
    IF side = "IN" THEN [q EXCEPT !.fringeFieldIN.trackFunc = f]
    ELSE [q EXCEPT !.fringeFieldOUT.trackFunc = f]

\* quad.setnParts(n): the parts of an earlier initialize are gone
SetnParts ==
    \E n \in 1..MaxParts :
       /\ quadNode' = [quadNode EXCEPT !.nParts = n, !.parts = <<>>]
       /\ call' = [op |-> "setnParts", n |-> n]
    /\ UNCHANGED <<factoryVars, rfVars>>

\* quad.setLength(L), as in line 215
SetLength ==
    \E l \in QuadLengths :
       /\ quadNode' = [quadNode EXCEPT !.length = l, !.parts = <<>>]
       /\ call' = [op |-> "setLength", length |-> l]
    /\ UNCHANGED <<factoryVars, rfVars>>

QuadInitialize ==
    /\ LET r == initialize(quadNode)
       IN /\ quadNode' = r.quad
          /\ call' = [op |-> "initialize", outcome |-> r.outcome]
    /\ UNCHANGED <<factoryVars, rfVars>>

SetTiltAngle ==
    \E a \in Angles :
       LET r == setTiltAngle(quadNode, a)
       IN /\ quadNode' = r.quad
          /\ call' = [op |-> "setTiltAngle", angle |-> a, outcome |-> r.outcome]
    /\ UNCHANGED <<factoryVars, rfVars>>

SetUsageFringeField ==
    \E side \in Sides : \E u \in BOOLEAN :
       /\ quadNode' = setUsage(quadNode, side, u)
       /\ call' = [op |-> "setUsage", side |-> side, usage |-> u]
    /\ UNCHANGED <<factoryVars, rfVars>>

SetFringeFieldFunction ==
    \E side \in Sides : \E f \in TrackFunctions :
       /\ quadNode' = setFringeFieldFunction(quadNode, side, f)
       /\ call' = [op |-> "setFringeFieldFunction", side |-> side, func |-> f]
    /\ UNCHANGED <<factoryVars, rfVars>>

TrackFringe ==
    \E side \in Sides :
       LET r == FringeTrack(Child(quadNode, side))
       IN /\ call' = [op |-> "track", side |-> side, invoked |-> r.invoked,
                      acted |-> r.acted]
          /\ UNCHANGED quadNode
    /\ UNCHANGED <<factoryVars, rfVars>>

InitNode == FactoryIdle /\ RFIdle /\ NodeIdle

NextNode ==
    \/ SetnParts
    \/ SetLength
    \/ QuadInitialize
    \/ SetTiltAngle
    \/ SetUsageFringeField
    \/ SetFringeFieldFunction
    \/ TrackFringe

SpecNode == InitNode /\ [][NextNode]_vars

\* ---------------------------------------------------------- C11 .. C14
\* C11: initialising a Quad whose part count is odd or less than 2 ends in
\* the fatal error and assigns no part lengths.
C11_OddParts ==
    [][(call'.op = "initialize" /\ (quadNode.nParts % 2 # 0 \/ quadNode.nParts < 2)) =>
          (call'.outcome = "fatal" /\ quadNode'.parts = quadNode.parts)]_vars

RECURSIVE SumParts(_)
SumParts(parts) == IF parts = <<>> THEN 0 ELSE Head(parts) + SumParts(Tail(parts))

\* C12: after Quad.initialize with an even part count n >= 2 and total
\* length L the edge parts 0 and n-1 are equal, (n-1) times twice an edge
\* part is L, every interior part is twice an edge part, and the part
\* lengths sum to L.
C12_PartLengths ==
    (call.op = "initialize" /\ quadNode.nParts >= 2 /\ quadNode.nParts % 2 = 0) =>
        LET n == quadNode.nParts
            parts == quadNode.parts
        IN /\ call.outcome = "ok"
           /\ Len(parts) = n
           /\ parts[1] = parts[n]
           /\ 2 * (n - 1) * parts[1] = quadNode.length
           /\ \A i \in 2..(n - 1) : parts[i] = 2 * parts[1]
           /\ SumParts(parts) = quadNode.length

C12_Witness ==
    /\ call.op = "initialize"
    /\ quadNode.nParts = 4
    /\ quadNode.length = 2 * LenUnit
    /\ Len(quadNode.parts) = 4

\* C13: setTiltAngle(a) completes and leaves a in the entrance tilt child
\* (what getTiltAngle returns) and -a in the exit tilt child.
C13_Tilt ==
    [][call'.op = "setTiltAngle" =>
          /\ call'.outcome = "ok"
          /\ getTiltAngle(quadNode') = call'.angle
          /\ quadNode'.tiltNodeOUT = -call'.angle]_vars

\* C14: track() of a fringe-field child that holds a function of the caller
\* invokes the function exactly if the usage flag of the child is true, and
\* with the flag off or no function set it changes nothing; setting the usage flag of one child leaves the other child as
\* it is.
C14_FringeUsage ==
    [][/\ call'.op = "track" =>
            LET ff == Child(quadNode, call'.side)
            IN /\ ff.trackFunc = "user" => (call'.invoked <=> ff.usage)
               /\ (ff.trackFunc = "None" \/ ~ff.usage) => ~call'.acted
       /\ call'.op = "setUsage" =>
            \A side \in Sides \ {call'.side} : Child(quadNode', side) = Child(quadNode, side)
      ]_vars

\* ---------------------------------------------------------- C15 .. C20
\* the node list tiles [0, length] within zeroDistance
TiledList(nodes, length) ==
    /\ nodes # <<>>
    /\ Within(Lead(nodes[1]), 0)
    /\ Within(Trail(nodes[Len(nodes)]), length)
    /\ \A i \in 1..(Len(nodes) - 1) : Within(Trail(nodes[i]), Lead(nodes[i + 1]))

\* position lies in the closed span of the Drift d
InDrift(d, position) == d.cls = "Drift" /\ Lead(d) <= position /\ position <= Trail(d)

\* the thin element whose turn it is in the loop of line 364
ThinTurn == pc = "drifts" /\ node_ind' = node_ind + 1

\* C15: a thin element that no quad absorbed and whose position lies in the
\* closed span of a Drift of the (tiled) sequence is put into the sequence
\* at its own position, between nodes whose edges meet it within
\* zeroDistance, and is counted as assigned.
C15_ThinAtDrift ==
    [][(/\ ThinTurn
        /\ TiledList(accNodes, seq.length)
        /\ \E i \in 1..Len(accNodes) : InDrift(accNodes[i], thinNodes[node_ind + 1].pos))
         => LET node == thinNodes[node_ind + 1]
            IN /\ InList(node, usedThinNodes')
               /\ \E j \in 1..Len(accNodes') :
                     /\ accNodes'[j].id = node.name
                     /\ accNodes'[j].pos = node.pos
                     /\ j > 1 => Within(Trail(accNodes'[j - 1]), node.pos)
                     /\ j < Len(accNodes') => Within(Lead(accNodes'[j + 1]), node.pos)]_vars

\* the thin element node is a child of the quad q
ChildOf(q, node) == \E k \in 1..Len(q.body) : q.body[k].node.id = node.name

\* C16: when the loop over the thin elements and the quads is through, every
\* thin element that lies strictly inside the span of a quad, or within
\* zeroDistance of its centre, is a BODY child of exactly one quad, attached
\* AFTER part nParts/2 - 1, is off the list of thin elements that goes on to
\* the drifts, and is no node of the sequence.
C16_ThinInQuad ==
    [][(pc = "quads" /\ pc' # "quads") =>
          /\ pc' = "drifts"
          /\ \A t \in 1..Len(thinNodes) :
                LET node == thinNodes[t]
                IN (\E i \in 1..Len(accNodes) :
                       accNodes[i].cls = "Quad" /\ InsideQuad(node.pos, accNodes[i]))
                   => /\ Cardinality({ i \in 1..Len(accNodes) : ChildOf(accNodes[i], node) }) = 1
                      /\ \A i \in 1..Len(accNodes) : \A k \in 1..Len(accNodes[i].body) :
                            accNodes[i].body[k].node.id = node.name =>
                               /\ accNodes[i].cls = "Quad"
                               /\ InsideQuad(node.pos, accNodes[i])
                               /\ accNodes[i].body[k].place = "BODY"
                               /\ accNodes[i].body[k].place_in_part = "AFTER"
                               /\ 2 * (accNodes[i].body[k].part_index + 1) = QuadParts
                      /\ ~InList(node, thinNodes')
                      /\ \A i \in 1..Len(accNodes) : accNodes[i].id # node.name]_vars

\* a step of the classification loop on an element that is no QUAD, no RFGAP
OtherStep == pc = "classify" /\ node_ind < Len(seq.nodes)
             /\ parsedNode.type \notin {"QUAD", "RFGAP"}

\* C18: in the classification loop an element that is neither QUAD nor RFGAP
\* and has a length other than zero ends the call with the fatal error that
\* names it, and nothing is returned; one of any other type, known or not,
\* with length zero causes no fatal error, goes to the end of the list of
\* thin elements and is not added to the sequence; the 'strange element'
\* error is never raised for an element of length zero.
C18_Strange ==
    /\ [][OtherStep =>
            IF parsedNode.length # 0
            THEN /\ pc' = "fatal"
                 /\ err'.kind = "strange"
                 /\ err'.name = parsedNode.name
                 /\ err'.type = parsedNode.type
                 /\ returned' = None
                 /\ thinNodes' = thinNodes
            ELSE /\ pc' = "classify"
                 /\ err' = NoErr
                 /\ thinNodes' = Append(thinNodes, parsedNode)
                 /\ accNodes' = accNodes]_vars
    /\ []((pc = "fatal" /\ err.kind = "strange") =>
             (err.length # 0 /\ err.type \notin {"QUAD", "RFGAP"} /\ returned = None))

\* an element of a type the factory does not know, of length zero, is deferred
C18_Witness ==
    /\ pc = "classify"
    /\ \E i \in 1..Len(thinNodes) : thinNodes[i].type = "BEND" /\ thinNodes[i].length = 0
    /\ \A i \in 1..Len(accNodes) : accNodes[i].cls # "MarkerLinacNode"

\* the orders of n elements
Orders(n) == { f \in [1..n -> 1..n] : \A i, j \in 1..n : f[i] = f[j] => i = j }

Ascending(nodes) == \A i \in 1..(Len(nodes) - 1) : nodes[i].pos <= nodes[i + 1].pos

\* the elements of s are all non-thin, and in ascending position they pass
\* the checks of the first node, the last node and the adjacent pairs
ValidAscending(s) ==
    /\ s.nodes # <<>>
    /\ \A i \in 1..Len(s.nodes) : IsThick(s.nodes[i])
    /\ \E f \in Orders(Len(s.nodes)) :
          LET t == [s EXCEPT !.nodes = [i \in 1..Len(s.nodes) |-> s.nodes[f[i]]]]
          IN /\ Ascending(t.nodes)
             /\ ~FirstTooLong(t)
             /\ ~LastTooLong(t)
             /\ ~HasOverlap(t)

\* C19: for a list of non-thin elements, in any order, that is valid in
\* ascending position, the call returns a lattice, and the centres of its
\* nodes do not decrease.
C19_Sorted ==
    (Terminal /\ Len(Requested) = 1 /\ ValidAscending(Requested[1])) =>
        /\ pc = "done"
        /\ Ascending(returned.nodes)

\* C20: on a tiled sequence __getDriftThinNode returns None or a Drift of
\* the sequence whose span holds the position within zeroDistance.
C20_DriftCovers ==
    (pc = "drifts" /\ node_ind < Len(thinNodes) /\ TiledList(accNodes, seq.length)) =>
        LET position == thinNodes[node_ind + 1].pos
            d == getDriftThinNode(position, accNodes)
        IN d # 0 =>
             /\ accNodes[d].cls = "Drift"
             /\ Lead(accNodes[d]) - ZeroDistance <= position
             /\ position <= Trail(accNodes[d]) + ZeroDistance

\* names is a non-empty run of consecutive sequences of the tree
ValidNames(nms, tree) ==
    /\ nms # <<>>
    /\ \E start \in 0..(Len(tree) - Len(nms)) :
          \A i \in 1..Len(nms) : nms[i] = tree[start + i].name

\* C17: a list of names that is empty, holds a name that is no sequence of
\* the tree, or is no run of consecutive sequences in the order of the tree
\* ends the call with a fatal error and without a lattice; for every other
\* list the call gets past the check of the names and a returned lattice
\* holds exactly the sequences named, in that order.
C17_Names ==
    Terminal =>
        IF ValidNames(names, ltree)
        THEN /\ lattice # None
             /\ pc = "done" =>
                  [i \in 1..Len(returned.sequences) |-> returned.sequences[i].name] = names
        ELSE /\ pc = "fatal"
             /\ err.kind \in {"names_empty", "names_wrong"}
             /\ returned = None

\* LinacAccLattice.getRF_Cavity: the index of the first cavity of that name
\* in the cavity list of the lattice, 0 for None
getRF_Cavity(lat, name) ==
    IF \E i \in 1..Len(lat.rfCavities) : lat.rfCavities[i].name = name
    THEN CHOOSE i \in 1..Len(lat.rfCavities) :
            /\ lat.rfCavities[i].name = name
            /\ \A j \in 1..(i - 1) : lat.rfCavities[j].name # name
    ELSE 0

\* ------------------------------------------------------------------- C21
\* the RF gap nodes of a lattice in the order of its node list, as the
\* tracking passes of lines 50-84 meet them
RFGapNodes(nodes) ==
    LET gaps == SelectSeq(nodes, LAMBDA n : n.cls = "BaseRF_Gap")
    IN [i \in 1..Len(gaps) |->
          [BaseRF_Gap(0) EXCEPT !.isFirstGap = gaps[i].isFirstGap,
                                !.rfCavity = gaps[i].rfCavity]]

\* the caller of getLinacAccLattice holds the lattice of line 423: its
\* cavities and its nodes are the ones the tracking passes work on
UseLattice ==
    /\ pc = "done"
    /\ pass.mode = "build"
    /\ rfCavities' = returned.rfCavities
    /\ rfGaps' = RFGapNodes(returned.nodes)
    /\ pass' = [mode |-> "idle", next |-> 0]
    /\ last' = [op |-> "lattice"]
    /\ UNCHANGED <<factoryVars, nodeVars, bunch, nCalls, refs>>

NextLattice ==
    \/ CheckNames
    \/ ClassifyQuad
    \/ ClassifyRFGap
    \/ ClassifyOther
    \/ FirstNodeCheck
    \/ LastNodeCheck
    \/ PairStep
    \/ PairsDone
    \/ ThinIntoQuads
    \/ RemoveQuadThin
    \/ ThinIntoDrift
    \/ AssembleSequence
    \/ ReturnLattice
    \/ UseLattice
    \/ StartPass
    \/ PassStep

\* the factory, followed by full tracking passes over the lattice it returned
SpecLattice == Init /\ [][NextLattice]_vars

\* the places in the node list of the gaps that were given to cavity c
GapPlaces(nodes, c) ==
    { i \in 1..Len(nodes) : nodes[i].cls = "BaseRF_Gap" /\ nodes[i].rfCavity = c }

\* every cavity of the returned lattice has exactly one gap flagged first,
\* and that gap stands before the other gaps of the cavity in the node list
FirstGapLeads ==
    Returned =>
        \A c \in 1..Len(returned.rfCavities) :
           LET places == GapPlaces(returned.nodes, c)
           IN \E f \in places :
                 /\ returned.nodes[f].isFirstGap
                 /\ \A i \in places \ {f} : ~returned.nodes[i].isFirstGap /\ f < i

\* a step of a full pass in which a gap that is not flagged first read the
\* reference of its cavity: the first gap of that cavity stands earlier in
\* the pass and the reference has been written
ReadAfterWrite ==
    (pass.mode \in {"design", "track"} /\ nCalls' = nCalls + 1
       /\ last'.outcome = "ok" /\ ~last'.first) =>
        /\ \E g \in 1..(pass.next - 1) :
              rfGaps[g].isFirstGap /\ rfGaps[g].rfCavity = last'.cav
        /\ <<last'.cav, RefOf(pass.mode)>> \in refs

\* C21: in every lattice the factory returns, the gap flagged first of every
\* RF cavity stands before every other gap of that cavity in the node list,
\* and in every full design or operational pass over that lattice a gap that
\* is not flagged first reads the arrival-time reference of its cavity only
\* after the first gap of the cavity has written it in that pass.
C21_FirstGapLeads == [](FirstGapLeads) /\ [][ReadAfterWrite]_vars

\* a design pass over a returned lattice has tracked the second gap of a cavity
C21_Witness ==
    /\ pc = "done"
    /\ nCalls = 2
    /\ last.op = "design"
    /\ last.inPass
    /\ last.outcome = "ok"
    /\ ~last.first
    /\ \E g \in 1..(last.gap - 1) : rfGaps[g].isFirstGap /\ rfGaps[g].rfCavity = last.cav

\* ------------------------------------------------------------------- C22
\* every Drift of a list of nodes has a length above zero
PositiveDrifts(nodes) ==
    \A i \in 1..Len(nodes) : nodes[i].cls = "Drift" => nodes[i].length > 0

\* the Drifts of the sequence being built and of the lattice are positive
DriftsPositive ==
    /\ PositiveDrifts(accNodes)
    /\ lattice # None => PositiveDrifts(lattice.nodes)

\* a step of the loop of line 364 that replaced a Drift by two (lines 389-399):
\* the two new Drifts stand around the thin node and their lengths add up to
\* the length of the Drift they replace
SplitKeepsLength ==
    (pc = "drifts" /\ Len(accNodes') = Len(accNodes) + 2) =>
        LET d == getDriftThinNode(thinNodes[node_ind + 1].pos, accNodes)
        IN /\ accNodes'[d].cls = "Drift"
           /\ accNodes'[d + 2].cls = "Drift"
           /\ accNodes'[d].length + accNodes'[d + 2].length = accNodes[d].length

\* C22: in every sequence the factory builds, whatever the thin elements and
\* their positions, every Drift node has a length strictly above zero (the
\* Drift before the first node, the Drifts between neighbours and the Drifts
\* made by a split), and the two Drifts made by a split have lengths that add
\* up to the length of the Drift they replace.
C22_DriftLengths == [](DriftsPositive) /\ [][SplitKeepsLength]_vars

\* ------------------------------------------------------------------- C23
\* no two cavities of the cavity list of the returned lattice share a name
UniqueCavityNames ==
    \A i, j \in 1..Len(returned.rfCavities) :
       returned.rfCavities[i].name = returned.rfCavities[j].name => i = j

\* C23: in every lattice getLinacAccLattice returns, over one or several
\* sequences, the names in the cavity list are unique: every parent-cavity
\* name of the input has exactly one RF_Cavity, also when gaps of that name
\* stand in more than one requested sequence, and getRF_Cavity(name) is the
\* one cavity that holds every gap of that name.
C23_UniqueCavities ==
    Returned =>
        /\ UniqueCavityNames
        /\ \A i \in 1..Len(returned.nodes) :
              LET n == returned.nodes[i]
                  c == getRF_Cavity(returned, ParsedOf(n.id).cav)
              IN n.cls = "BaseRF_Gap" =>
                   /\ c # 0
                   /\ n.rfCavity = c
                   /\ InList(n.id, returned.rfCavities[c].rfGaps)

====
